---- MODULE Spec2Model ----
(***************************************************************************)
(* The site crawler (src/src/process_website.py) and the batch downloader  *)
(* (src/src/image_downloader.py) of ImageLabeller-CLIP-KG as state         *)
(* machines.  One step of a task is the code between two suspension points *)
(* (an awaited fetch or an awaited sleep): asyncio runs exactly that much  *)
(* of a coroutine without interleaving another task.                       *)
(*                                                                         *)
(* A URL is a tuple <<host, seg, ...>>: <<1>> is the seed of host 1 and    *)
(* <<1, 2>> a page below it; str.startswith is the prefix test on tuples,  *)
(* and the path robots.txt rules are matched against is Tail(url).  An     *)
(* image url is <<stem, extension, query>>, the extension being what       *)
(* follows the last dot of the path ("" when there is none).               *)
(***************************************************************************)
EXTENDS Integers, Sequences, FiniteSets, TLC

VARIABLES
    manufacturer_data,  \* process_websites' input: the manufacturers, in dict order
    orch,               \* process_websites: "init", "gather" or "returned"; then
                        \* main: "downloading"
    results,            \* the list process_websites returns
    visited_urls,       \* WebsiteProcessor.visited_urls of the one processor
    downloaded_images,  \* WebsiteProcessor.downloaded_images of the one processor
    rp,                 \* WebsiteProcessor.rp of the one processor
    pc,                 \* per process_domain task: where it is suspended
    stack,              \* per task: the process_url calls in progress, outermost first
    menu_items,         \* per task: process_domain's menu_items, resolved
    menu_idx,           \* per task: 0 in the home-page visit, i in the i-th menu item
    processed_data,     \* per task: process_domain's processed_data
    task_result,        \* per task: what the task ended with
    log,                \* per task: the page fetches it has issued (those of
                        \* process_url with the menu item and the depth of the call),
                        \* how each fetch ended and its sleeps, in order
    robots_txt,         \* per host: the robots.txt its server holds
    robots_status,      \* per task: how its robots.txt request ended
    answered_by,        \* per task: the owners of the parsers that answered its checks
    website_data,       \* download_batch_images' input
    dl_pc,              \* download_batch_images: "idle", "gather" or "returned"
    image_counter,      \* download_batch_images: image_counter, per manufacturer
    tasks,              \* download_batch_images: the arguments of the tasks, in order
    task_pc,            \* per download_single_image task: where it is suspended
    task_out,           \* per download_single_image task: what it returned
    task_log,           \* per download_single_image task: what happened to it, in order
    dirs,               \* the directories os.makedirs has made
    files,              \* the files opened for writing, and whether they were written
    image_data,         \* the list download_batch_images returns
    gen_args,           \* generate_image_name: <<manufacturer_index, image_count>>
    gen_names           \* generate_image_name: what the calls with gen_args returned

vars == <<manufacturer_data, orch, results, visited_urls, downloaded_images, rp,
          pc, stack, menu_items, menu_idx, processed_data, task_result, log,
          robots_txt, robots_status, answered_by, website_data, dl_pc,
          image_counter, tasks, task_pc, task_out, task_log, dirs, files,
          image_data, gen_args, gen_names>>

crawl_vars == <<manufacturer_data, orch, results, visited_urls, downloaded_images,
                rp, pc, stack, menu_items, menu_idx, processed_data, task_result,
                log, robots_txt, robots_status, answered_by>>

dl_vars == <<website_data, dl_pc, image_counter, tasks, task_pc, task_out,
            task_log, dirs, files, image_data>>

name_vars == <<gen_args, gen_names>>

----------------------------------------------------------------------------
(* Bounds of the model and constants of the program *)

NumManufacturers == 2

max_pages_per_domain == 500

WideMenuLen == max_pages_per_domain + 1

WideHost == NumManufacturers + 1

\* config.py line 24; nothing reads it
CONCURRENT_DOWNLOADS == 5

\* one manufacturer more than that
FanOut == CONCURRENT_DOWNLOADS + 1

\* the bounds of download_batch_images' inputs: sites, and images of a small site
MaxSites == 2

SmallImages == 2

\* the downloads of a batch are followed when it has at most this many tasks
MaxDownloads == 4

\* the Z99 limit of download_batch_images:  26 * 99
Sections == 26

PerSection == 99

\* a site with more images than the limit admits
BigImages == Sections * PerSection + 2

None == [none |-> TRUE]

----------------------------------------------------------------------------
(* Sequences *)

IsPrefix(p, s) == Len(p) <= Len(s) /\ SubSeq(s, 1, Len(p)) = p

Range(s) == {s[i] : i \in 1..Len(s)}

Perms(S) == {q \in [1..Cardinality(S) -> S] : Range(q) = S}

----------------------------------------------------------------------------
(* The web the crawl runs against: what the servers hold.  Host 1 is a     *)
(* site with nested pages, a self link, links between sibling pages, a     *)
(* page that only a page two levels down links to, a menu that leaves the  *)
(* site, an image named twice and data: URIs; host 2 is a two-page site;   *)
(* WideHost is a home page whose menu names WideMenuLen pages; every other *)
(* host is a bare home page.                                               *)

\* data.get('Website') of a manufacturer, scheme-qualified
Website(m) == <<m>>

\* enumerate() index of a manufacturer in manufacturer_data
ManufacturerIndex(m) == m - 1

\* the robots.txt files a host may serve, each the set of Disallow path prefixes
\* of its  User-agent: *  group: host 1 disallows /2, host 2 disallows / or /1
RobotsChoices(h) ==
    CASE h = 1 -> {{<<2>>}}
      [] h = 2 -> {{<<>>}, {<<1>>}}
      [] OTHER -> {{}}

\* the <a href> targets of a page, resolved with urljoin
Anchors(u) ==
    CASE u = <<1>> -> {<<1>>, <<1, 1>>, <<1, 2>>, <<1, 3>>}
      [] u = <<1, 1>> -> {<<1, 1, 1>>, <<1, 2>>}
      [] u = <<1, 1, 1>> -> {<<1, 4>>}
      [] u = <<1, 2>> -> {<<1, 1>>}
      [] u = <<2>> -> {<<2, 1>>}
      [] OTHER -> {}

\* the hrefs extract_menu_items finds on a page, in document order, resolved
MenuLinks(u) ==
    CASE u = <<1>> -> << <<1, 2>>, <<2, 1>>, <<1, 1>> >>
      [] u = <<2>> -> << <<2, 1>> >>
      [] u = <<WideHost>> -> [k \in 1..WideMenuLen |-> <<WideHost, k>>]
      [] OTHER -> << >>

\* An image URL is <<stem, extension of the path, query>>:  <<"i4", ".png", "?v=1">>
\* stands for  http://.../i4.png?v=1
I1 == <<"i1", ".png", "">>

I2 == <<"i2", ".JPG", "">>

I3 == <<"i3", "", "?w=3">>

I4 == <<"i4", ".png", "?v=1">>

DataA == <<"data:a", "", "">>

DataB == <<"data:b", "", "">>

\* an <img> without data-srclazy and without src
NoSrc == <<"", "", "">>

DataURIs == {DataA, DataB}

\* the <img> tags of a page: resolved data-srclazy or src, and alt
ImgTags(u) ==
    CASE u = <<1>> -> << [url |-> I1, alt |-> "logo"], [url |-> I1, alt |-> "N/A"] >>
      [] u = <<1, 1>> -> << [url |-> DataA, alt |-> "N/A"], [url |-> I2, alt |-> "part"] >>
      [] u = <<2>> -> << [url |-> NoSrc, alt |-> "N/A"] >>
      [] u = <<2, 1>> -> << [url |-> I1, alt |-> "cdn"] >>
      [] OTHER -> << >>

\* the background-image urls of the <style> blocks of a page, resolved
StyleUrls(u) ==
    CASE u = <<1>> -> << I2 >>
      [] u = <<1, 1>> -> << DataB >>
      [] u = <<1, 1, 1>> -> << I3 >>
      [] OTHER -> << >>

\* the background-image urls of the inline style attributes of a page, resolved
InlineUrls(u) ==
    CASE u = <<1, 2>> -> << I3, I4 >>
      [] u = <<1, 1, 1>> -> << I3 >>
      [] OTHER -> << >>

\* soup.get_text() of a page
PageText(u) == <<"text", u>>

\* soup.get_text(separator=' ', strip=True) of a page
StrippedText(u) == <<"stripped", u>>

----------------------------------------------------------------------------
(* urllib.robotparser.RobotFileParser as process_website.py uses it.  A    *)
(* parser object is [owner, parsed]: the task that created it and the      *)
(* hosts whose robots.txt were parsed into it, in order.  can_fetch        *)
(* answers False until something was parsed, then by the first             *)
(*  User-agent: *  group that was parsed with rules, matching the path of  *)
(* the url only.                                                           *)

NewParser(d) == [owner |-> d, parsed |-> << >>]

Parse(obj, h) == [obj EXCEPT !.parsed = Append(@, h)]

WithRules(obj) == SelectSeq(obj.parsed, LAMBDA h : robots_txt[h] # {})

Disallows(policy, u) == \E p \in policy : IsPrefix(p, Tail(u))

can_fetch(obj, u) ==
    /\ Len(obj.parsed) > 0
    /\ \/ WithRules(obj) = << >>
       \/ ~Disallows(robots_txt[Head(WithRules(obj))], u)

----------------------------------------------------------------------------
(* Content extraction *)

startswith_data(img_url) == img_url \in DataURIs

\* the three passes of extract_images over one page, as one candidate list
Candidates(u) ==
    [i \in 1..Len(ImgTags(u)) |->
        [url |-> ImgTags(u)[i].url, alt_text |-> ImgTags(u)[i].alt,
         source |-> "img_tag"]]
    \o [i \in 1..Len(StyleUrls(u)) |->
        [url |-> StyleUrls(u)[i], alt_text |-> "N/A", source |-> "style_tag"]]
    \o [i \in 1..Len(InlineUrls(u)) |->
        [url |-> InlineUrls(u)[i], alt_text |-> "N/A", source |-> "inline_style"]]

\* the test with the seen-set left out of the style passes
Accepts_StylesNotDeduplicated(c, seen) ==
    IF c.source = "img_tag"
    THEN c.url # NoSrc /\ c.url \notin seen
    ELSE ~startswith_data(c.url)

\* the test that guards images.append for one candidate
Accepts(c, seen) ==
    IF c.source = "img_tag"
    THEN c.url # NoSrc /\ c.url \notin seen
    ELSE ~startswith_data(c.url) /\ c.url \notin seen

ImageRecord(c, u) ==
    [url |-> c.url, alt_text |-> c.alt_text, source |-> c.source,
     source_page |-> u, page_context |-> PageText(u)]

RECURSIVE ExtractFrom(_, _, _, _)
ExtractFrom(cands, u, images, seen) ==
    IF cands = << >>
    THEN [images |-> images, seen |-> seen]
    ELSE LET c == Head(cands) IN
         IF Accepts(c, seen)
         THEN ExtractFrom(Tail(cands), u, Append(images, ImageRecord(c, u)),
                          seen \cup {c.url})
         ELSE ExtractFrom(Tail(cands), u, images, seen)

\* extract_images(soup, url): the images list and self.downloaded_images after it
extract_images(u, seen) == ExtractFrom(Candidates(u), u, << >>, seen)

\* get_sublinks(url, soup)
get_sublinks(u) == {l \in Anchors(u) : IsPrefix(u, l)}

\* extract_menu_items(soup), each href resolved against website_url (line 212)
extract_menu_items(u) == MenuLinks(u)

----------------------------------------------------------------------------
(* Control flow of one process_domain task between suspension points.  An  *)
(* outcome is where the task suspends or ends next: its pc, stack and      *)
(* menu_idx, the url it marks visited, what it appends to its log, how it  *)
(* ends, and whether a can_fetch call was answered on the way.             *)

Outcome(p, st, mi, visit, events, fin, asked) ==
    [pc |-> p, stack |-> st, mi |-> mi, visit |-> visit, events |-> events,
     fin |-> fin, asked |-> asked]

\* process_url going to its fetch without adding the url to visited_urls
Call_NotMarked(st, mi, u) ==
    Outcome("page_fetch", Append(st, [url |-> u, todo |-> << >>]), mi, {},
            << [ev |-> "fetch", url |-> u, mi |-> mi, depth |-> Len(st) + 1] >>,
            "pending", TRUE)

\* process_url passes its guard: lines 147-150, up to the awaited fetch_page
Call(st, mi, u) ==
    Outcome("page_fetch", Append(st, [url |-> u, todo |-> << >>]), mi, {u},
            << [ev |-> "fetch", url |-> u, mi |-> mi, depth |-> Len(st) + 1] >>,
            "pending", TRUE)

\* await asyncio.sleep(self.delay), lines 167 and 214
Sleep(st, mi, asked) ==
    Outcome("sleep", st, mi, {}, << [ev |-> "sleep"] >>, "pending", asked)

\* the task ends: return processed_data, return None, or an exception leaves it
Finish(fin, asked) == Outcome("done", << >>, 0, {}, << >>, fin, asked)

\* the menu loop going through the menu from its last item to its first
EnterMenu_Reversed(mi, menu) ==
    IF mi > Len(menu) THEN Finish("dict", FALSE)
    ELSE IF menu[Len(menu) + 1 - mi] \in visited_urls THEN Sleep(<< >>, mi, FALSE)
    ELSE IF rp = None THEN Finish("exception", FALSE)
    ELSE IF can_fetch(rp, menu[Len(menu) + 1 - mi])
    THEN Call(<< >>, mi, menu[Len(menu) + 1 - mi])
    ELSE Sleep(<< >>, mi, TRUE)

\* the menu loop with a process_url guard that does not look at visited_urls
EnterMenu_NoVisitedGuard(mi, menu) ==
    IF mi > Len(menu) THEN Finish("dict", FALSE)
    ELSE IF rp = None THEN Finish("exception", FALSE)
    ELSE IF can_fetch(rp, menu[mi]) THEN Call(<< >>, mi, menu[mi])
    ELSE Sleep(<< >>, mi, TRUE)

\* the menu loop of process_domain from item mi on, lines 211-220, each item
\* through the guard of process_url, line 144; can_fetch on self.rp = None
\* raises AttributeError
EnterMenu(mi, menu) ==
    IF mi > Len(menu) THEN Finish("dict", FALSE)
    ELSE IF menu[mi] \in visited_urls THEN Sleep(<< >>, mi, FALSE)
    ELSE IF rp = None THEN Finish("exception", FALSE)
    ELSE IF can_fetch(rp, menu[mi]) THEN Call(<< >>, mi, menu[mi])
    ELSE Sleep(<< >>, mi, TRUE)

\* a process_url call returned to its caller: the sublink loop of the parent
\* (line 167), the home-page call (line 208) or the menu loop (line 214)
AfterReturn(st, mi, menu, asked) ==
    IF st # << >> THEN Sleep(st, mi, asked)
    ELSE IF mi = 0
         THEN LET o == EnterMenu(1, menu) IN [o EXCEPT !.asked = @ \/ asked]
         ELSE Sleep(<< >>, mi, asked)

\* the sublink loop starting the visits of all the sublinks it has left at
\* once, as tasks of one gather, instead of awaiting one after the other
SublinkLoop_AllAtOnce(todo, st, mi, menu, asked) ==
    LET Unvisited(u) == u \notin visited_urls
        left == SelectSeq(todo, Unvisited)
        Allowed(u) == can_fetch(rp, u)
        now == IF rp = None THEN << >> ELSE SelectSeq(left, Allowed)
    IN IF left = << >>
       THEN AfterReturn(SubSeq(st, 1, Len(st) - 1), mi, menu, asked)
       ELSE IF rp = None THEN Finish("exception", asked)
       ELSE IF now = << >>
       THEN AfterReturn(SubSeq(st, 1, Len(st) - 1), mi, menu, TRUE)
       ELSE Outcome("page_fetch",
                    Append([st EXCEPT ![Len(st)].todo = << >>],
                           [url |-> now[1], todo |-> << >>]),
                    mi, Range(now),
                    [i \in 1..Len(now) |->
                        [ev |-> "fetch", url |-> now[i], mi |-> mi,
                         depth |-> Len(st) + 1]],
                    "pending", TRUE)

\* the sublink loop of the innermost process_url, lines 164-167, from the
\* sublinks it has not reached yet
RECURSIVE SublinkLoop(_, _, _, _, _)
SublinkLoop(todo, st, mi, menu, asked) ==
    IF todo = << >>
    THEN AfterReturn(SubSeq(st, 1, Len(st) - 1), mi, menu, asked)
    ELSE IF Head(todo) \in visited_urls
    THEN SublinkLoop(Tail(todo), st, mi, menu, asked)
    ELSE IF rp = None THEN Finish("exception", asked)
    ELSE IF can_fetch(rp, Head(todo))
    THEN Call([st EXCEPT ![Len(st)].todo = Tail(todo)], mi, Head(todo))
    ELSE SublinkLoop(Tail(todo), st, mi, menu, TRUE)

\* process_url(website_url) called from process_domain, line 208
HomeVisit(u, menu) ==
    IF u \in visited_urls THEN EnterMenu(1, menu)
    ELSE IF rp = None THEN Finish("exception", FALSE)
    ELSE IF can_fetch(rp, u) THEN Call(<< >>, 0, u)
    ELSE LET o == EnterMenu(1, menu) IN [o EXCEPT !.asked = TRUE]

\* the log entry of a fetch that returned the page
Fetched(u) == [ev |-> "fetched", url |-> u]

\* the task d takes the outcome o
Take(d, o) ==
    /\ pc' = [pc EXCEPT ![d] = o.pc]
    /\ stack' = [stack EXCEPT ![d] = o.stack]
    /\ menu_idx' = [menu_idx EXCEPT ![d] = o.mi]
    /\ visited_urls' = visited_urls \cup o.visit
    /\ log' = [log EXCEPT ![d] = @ \o o.events]
    /\ task_result' = [task_result EXCEPT ![d] = o.fin]
    /\ answered_by' = [answered_by EXCEPT ![d] =
                          IF o.asked /\ rp # None THEN @ \cup {rp} ELSE @]

----------------------------------------------------------------------------
(* process_websites and the process_domain tasks *)

Tasks == Range(manufacturer_data)

NoData == [manufacturer |-> None]

NewProcessedData(d) ==
    [manufacturer |-> d, manufacturer_index |-> ManufacturerIndex(d),
     website_url |-> Website(d), images |-> << >>, page_contexts |-> << >>]

\* process_websites, lines 225-235: one processor, one task per manufacturer
ProcessWebsites ==
    /\ orch = "init"
    /\ orch' = "gather"
    /\ pc' = [d \in DOMAIN pc |-> IF d \in Tasks THEN "created" ELSE pc[d]]
    /\ UNCHANGED <<manufacturer_data, results, visited_urls, downloaded_images, rp,
                   stack, menu_items, menu_idx, processed_data, task_result, log,
                   robots_txt, robots_status, answered_by>>
    /\ UNCHANGED dl_vars
    /\ UNCHANGED name_vars

\* process_domain up to the awaited session.get(robots_url), lines 172-179
DomainStart(d) ==
    /\ pc[d] = "created"
    /\ rp' = NewParser(d)
    /\ pc' = [pc EXCEPT ![d] = "robots_get"]
    /\ UNCHANGED <<manufacturer_data, orch, results, visited_urls, downloaded_images,
                   stack, menu_items, menu_idx, processed_data, task_result, log,
                   robots_txt, robots_status, answered_by>>
    /\ UNCHANGED dl_vars
    /\ UNCHANGED name_vars

\* lines 190-199: processed_data is built and the home page fetch is issued
IssueHomeFetch(d) ==
    /\ processed_data' = [processed_data EXCEPT ![d] = NewProcessedData(d)]
    /\ log' = [log EXCEPT ![d] = Append(@, [ev |-> "home_fetch", url |-> Website(d)])]
    /\ pc' = [pc EXCEPT ![d] = "home_fetch"]

\* the except branch of lines 185-188
RobotsFailed(d) ==
    /\ rp' = None
    /\ pc' = [pc EXCEPT ![d] = "done"]
    /\ task_result' = [task_result EXCEPT ![d] = "None"]
    /\ UNCHANGED <<processed_data, log>>

\* the robots.txt response arrives with status 200: await response.text()
RobotsOk(d) ==
    /\ pc[d] = "robots_get"
    /\ pc' = [pc EXCEPT ![d] = "robots_text"]
    /\ robots_status' = [robots_status EXCEPT ![d] = "200"]
    /\ UNCHANGED <<manufacturer_data, orch, results, visited_urls, downloaded_images,
                   rp, stack, menu_items, menu_idx, processed_data, task_result, log,
                   robots_txt, answered_by>>
    /\ UNCHANGED dl_vars
    /\ UNCHANGED name_vars

\* the robots.txt response arrives with another status: lines 183-184, then 190-199
RobotsNot200(d) ==
    /\ pc[d] = "robots_get"
    /\ robots_status' = [robots_status EXCEPT ![d] = "not200"]
    /\ rp' = None
    /\ IssueHomeFetch(d)
    /\ UNCHANGED <<manufacturer_data, orch, results, visited_urls, downloaded_images,
                   stack, menu_items, menu_idx, task_result, robots_txt, answered_by>>
    /\ UNCHANGED dl_vars
    /\ UNCHANGED name_vars

\* session.get or response.text() raises: lines 185-188
RobotsError(d) ==
    /\ pc[d] \in {"robots_get", "robots_text"}
    /\ robots_status' = [robots_status EXCEPT ![d] = "error"]
    /\ RobotsFailed(d)
    /\ UNCHANGED <<manufacturer_data, orch, results, visited_urls, downloaded_images,
                   stack, menu_items, menu_idx, robots_txt, answered_by>>
    /\ UNCHANGED dl_vars
    /\ UNCHANGED name_vars

\* the robots.txt body arrives: self.rp.parse(...), line 182, on whatever self.rp
\* is by now; on None the AttributeError is caught by line 185
RobotsText(d) ==
    /\ pc[d] = "robots_text"
    /\ IF rp = None
       THEN RobotsFailed(d)
       ELSE /\ rp' = Parse(rp, Head(Website(d)))
            /\ IssueHomeFetch(d)
            /\ UNCHANGED task_result
    /\ UNCHANGED <<manufacturer_data, orch, results, visited_urls, downloaded_images,
                   stack, menu_items, menu_idx, robots_txt, robots_status, answered_by>>
    /\ UNCHANGED dl_vars
    /\ UNCHANGED name_vars

\* fetch_page(website_url) returns None: lines 200-202
HomeFetchFailed(d) ==
    /\ pc[d] = "home_fetch"
    /\ pc' = [pc EXCEPT ![d] = "done"]
    /\ task_result' = [task_result EXCEPT ![d] = "None"]
    /\ log' = [log EXCEPT ![d] = Append(@, [ev |-> "fetch_failed", url |-> Website(d)])]
    /\ UNCHANGED <<manufacturer_data, orch, results, visited_urls, downloaded_images,
                   rp, stack, menu_items, menu_idx, processed_data,
                   robots_txt, robots_status, answered_by>>
    /\ UNCHANGED dl_vars
    /\ UNCHANGED name_vars

\* fetch_page(website_url) returns the page: lines 204-208 and on to the next
\* suspension point
HomeFetched(d) ==
    /\ pc[d] = "home_fetch"
    /\ menu_items' = [menu_items EXCEPT ![d] = extract_menu_items(Website(d))]
    /\ LET o == HomeVisit(Website(d), extract_menu_items(Website(d)))
       IN Take(d, [o EXCEPT !.events = << Fetched(Website(d)) >> \o @])
    /\ UNCHANGED <<manufacturer_data, orch, results, downloaded_images, rp,
                   processed_data, robots_txt, robots_status>>
    /\ UNCHANGED dl_vars
    /\ UNCHANGED name_vars

\* fetch_page(url) of the innermost process_url returns None: lines 151-153
PageFetchFailed(d) ==
    /\ pc[d] = "page_fetch"
    /\ LET u == stack[d][Len(stack[d])].url
           o == AfterReturn(SubSeq(stack[d], 1, Len(stack[d]) - 1), menu_idx[d],
                            menu_items[d], FALSE)
       IN Take(d, [o EXCEPT !.events = << [ev |-> "fetch_failed", url |-> u] >> \o @])
    /\ UNCHANGED <<manufacturer_data, orch, results, downloaded_images, rp,
                   menu_items, processed_data, robots_txt, robots_status>>
    /\ UNCHANGED dl_vars
    /\ UNCHANGED name_vars

\* fetch_page(url) of the innermost process_url returns the page: lines 155-166,
\* the sublinks iterated in some order of the set
PageFetched(d) ==
    /\ pc[d] = "page_fetch"
    /\ LET u == stack[d][Len(stack[d])].url
           x == extract_images(u, downloaded_images)
       IN /\ downloaded_images' = x.seen
          /\ processed_data' = [processed_data EXCEPT
                ![d].page_contexts = (u :> StrippedText(u)) @@ @,
                ![d].images = @ \o x.images]
          /\ \E order \in Perms(get_sublinks(u)) :
                LET o == SublinkLoop(order, stack[d], menu_idx[d], menu_items[d], FALSE)
                IN Take(d, [o EXCEPT !.events = << Fetched(u) >> \o @])
    /\ UNCHANGED <<manufacturer_data, orch, results, rp, menu_items, robots_txt,
                   robots_status>>
    /\ UNCHANGED dl_vars
    /\ UNCHANGED name_vars

\* asyncio.sleep returns: the sublink loop or the menu loop goes on
SleepDone(d) ==
    /\ pc[d] = "sleep"
    /\ Take(d, IF stack[d] # << >>
               THEN SublinkLoop(stack[d][Len(stack[d])].todo, stack[d], menu_idx[d],
                                menu_items[d], FALSE)
               ELSE EnterMenu(menu_idx[d] + 1, menu_items[d]))
    /\ UNCHANGED <<manufacturer_data, orch, results, downloaded_images, rp,
                   menu_items, processed_data, robots_txt, robots_status>>
    /\ UNCHANGED dl_vars
    /\ UNCHANGED name_vars

\* what asyncio.gather(..., return_exceptions=True) holds for a task
GatherValue(d) ==
    CASE task_result[d] = "dict" -> processed_data[d]
      [] task_result[d] = "exception" -> [exception |-> "AttributeError", task |-> d]
      [] OTHER -> NoData

\* lines 237-238: every task is done; the entries that are not None are returned
Gather ==
    /\ orch = "gather"
    /\ \A d \in Tasks : pc[d] = "done"
    /\ results' = SelectSeq([i \in 1..Len(manufacturer_data) |->
                                GatherValue(manufacturer_data[i])],
                            LAMBDA r : r # NoData)
    /\ orch' = "returned"
    /\ UNCHANGED <<manufacturer_data, visited_urls, downloaded_images, rp, pc, stack,
                   menu_items, menu_idx, processed_data, task_result, log,
                   robots_txt, robots_status, answered_by>>
    /\ UNCHANGED dl_vars
    /\ UNCHANGED name_vars

AllHosts == 1..(IF WideHost > FanOut THEN WideHost ELSE FanOut)

CrawlInit(data) ==
    /\ manufacturer_data = data
    /\ orch = "init"
    /\ results = << >>
    /\ visited_urls = {}
    /\ downloaded_images = {}
    /\ rp = None
    /\ pc = [d \in AllHosts |-> "none"]
    /\ stack = [d \in AllHosts |-> << >>]
    /\ menu_items = [d \in AllHosts |-> << >>]
    /\ menu_idx = [d \in AllHosts |-> 0]
    /\ processed_data = [d \in AllHosts |-> NoData]
    /\ task_result = [d \in AllHosts |-> "pending"]
    /\ log = [d \in AllHosts |-> << >>]
    /\ answered_by = [d \in AllHosts |-> {}]
    /\ robots_status = [d \in AllHosts |-> "pending"]

DlIdle ==
    /\ dl_pc = "idle"
    /\ image_counter = << >>
    /\ tasks = << >>
    /\ task_pc = << >>
    /\ task_out = << >>
    /\ task_log = << >>
    /\ dirs = {}
    /\ files = << >>
    /\ image_data = << >>

\* generate_image_name has not been called
NameIdle ==
    /\ gen_args = <<0, 1>>
    /\ gen_names = << >>

\* the robots.txt files the hosts serve
WebInit ==
    robots_txt \in {f \in [AllHosts -> UNION {RobotsChoices(h) : h \in AllHosts}] :
                       \A h \in AllHosts : f[h] \in RobotsChoices(h)}

Init ==
    /\ CrawlInit([i \in 1..NumManufacturers |-> i])
    /\ WebInit
    /\ website_data = << >>
    /\ DlIdle
    /\ NameIdle

Next ==
    \/ ProcessWebsites
    \/ \E d \in Tasks : DomainStart(d)
    \/ \E d \in Tasks : RobotsOk(d)
    \/ \E d \in Tasks : RobotsNot200(d)
    \/ \E d \in Tasks : RobotsError(d)
    \/ \E d \in Tasks : RobotsText(d)
    \/ \E d \in Tasks : HomeFetchFailed(d)
    \/ \E d \in Tasks : HomeFetched(d)
    \/ \E d \in Tasks : PageFetchFailed(d)
    \/ \E d \in Tasks : PageFetched(d)
    \/ \E d \in Tasks : SleepDone(d)
    \/ Gather

Spec == Init /\ [][Next]_vars

\* a step of the process_domain task d
TaskStep(d) ==
    /\ d \in Tasks
    /\ \/ DomainStart(d)
       \/ RobotsOk(d)
       \/ RobotsNot200(d)
       \/ RobotsError(d)
       \/ RobotsText(d)
       \/ HomeFetchFailed(d)
       \/ HomeFetched(d)
       \/ PageFetchFailed(d)
       \/ PageFetched(d)
       \/ SleepDone(d)

\* the crawl of the first site alone
InitOne ==
    /\ CrawlInit(<<1>>)
    /\ WebInit
    /\ website_data = << >>
    /\ DlIdle
    /\ NameIdle

\* the event loop runs every task that can run, and every request and every
\* sleep ends
SpecOneFair ==
    /\ InitOne
    /\ [][Next]_vars
    /\ WF_vars(ProcessWebsites)
    /\ \A d \in AllHosts : WF_vars(TaskStep(d))
    /\ WF_vars(Gather)

\* the crawl of the wide site alone, in the run where every request succeeds
InitCeil ==
    /\ CrawlInit(<<WideHost>>)
    /\ WebInit
    /\ website_data = << >>
    /\ DlIdle
    /\ NameIdle

NextCeil ==
    \/ ProcessWebsites
    \/ \E d \in Tasks : DomainStart(d)
    \/ \E d \in Tasks : RobotsOk(d)
    \/ \E d \in Tasks : RobotsText(d)
    \/ \E d \in Tasks : HomeFetched(d)
    \/ \E d \in Tasks : PageFetched(d)
    \/ \E d \in Tasks : SleepDone(d)
    \/ Gather

SpecCeil == InitCeil /\ [][NextCeil]_vars

\* process_websites on FanOut manufacturers, in the runs where no site serves
\* a robots.txt and no home page answers
InitFan ==
    /\ CrawlInit([i \in 1..FanOut |-> i])
    /\ WebInit
    /\ website_data = << >>
    /\ DlIdle
    /\ NameIdle

NextFan ==
    \/ ProcessWebsites
    \/ \E d \in Tasks : DomainStart(d)
    \/ \E d \in Tasks : RobotsNot200(d)
    \/ \E d \in Tasks : RobotsError(d)
    \/ \E d \in Tasks : HomeFetchFailed(d)
    \/ Gather

SpecFan == InitFan /\ [][NextFan]_vars

----------------------------------------------------------------------------
(* generate_image_name, src/src/utils.py.  A string is the tuple of its    *)
(* characters.                                                             *)

\* the characters with codes 65 to 95
AsciiFrom65 ==
    <<"A", "B", "C", "D", "E", "F", "G", "H", "I", "J", "K", "L", "M", "N", "O",
      "P", "Q", "R", "S", "T", "U", "V", "W", "X", "Y", "Z", "[", "\\", "]", "^",
      "_">>

chr(n) == AsciiFrom65[n - 64]

DigitChars == <<"0", "1", "2", "3", "4", "5", "6", "7", "8", "9">>

RECURSIVE Decimal(_)
Decimal(n) ==
    IF n < 10 THEN <<DigitChars[n + 1]>>
    ELSE Decimal(n \div 10) \o <<DigitChars[(n % 10) + 1]>>

\* f"{number:02d}"
Format02d(n) == IF n < 10 THEN <<"0">> \o Decimal(n) ELSE Decimal(n)

\* the loop with each letter put after the ones before it
RECURSIVE LettersLoop_Appending(_, _, _)
LettersLoop_Appending(idx, n, letters) ==
    IF n = 0 THEN letters
    ELSE LettersLoop_Appending(idx \div 26, n - 1, letters \o <<chr(65 + (idx % 26))>>)

\* the loop of index_to_letters with n rounds left
RECURSIVE LettersLoop(_, _, _)
LettersLoop(idx, n, letters) ==
    IF n = 0 THEN letters
    ELSE LettersLoop(idx \div 26, n - 1, <<chr(65 + (idx % 26))>> \o letters)

index_to_letters(idx) == LettersLoop(idx, 3, << >>)

\* the name with the section letter left at A
generate_image_name_SectionDropped(manufacturer_index, image_count) ==
    <<"S", "D", "K">> \o index_to_letters(manufacturer_index) \o <<"0">>
    \o <<chr(65)>>
    \o Format02d(((image_count - 1) % 99) + 1)

generate_image_name(manufacturer_index, image_count) ==
    <<"S", "D", "K">> \o index_to_letters(manufacturer_index) \o <<"0">>
    \o <<chr(65 + ((image_count - 1) \div 99))>>
    \o Format02d(((image_count - 1) % 99) + 1)

\* the largest manufacturer index that three letters hold
MaxOrdinal == 26 * 26 * 26 - 1

\* the manufacturer indices whose calls are followed for every image count
NameOrdinals == {0, MaxOrdinal}

\* the image counts download_batch_images calls with
NameCounts == 1..(Sections * PerSection)

\* the image counts at the ends of the first sections and of the last
EdgeCounts == {1, PerSection, PerSection + 1, Sections * PerSection}

\* the image counts whose calls are followed for manufacturer index o
CountsFollowed(o) == IF o \in NameOrdinals THEN NameCounts ELSE EdgeCounts

\* the calls followed
NameInputs == (NameOrdinals \X NameCounts) \cup ((0..MaxOrdinal) \X EdgeCounts)

\* how many times the same call is made
MaxCalls == 2

\* one call  generate_image_name(manufacturer_index, image_count)
GenerateImageName ==
    /\ Len(gen_names) < MaxCalls
    /\ gen_names' = Append(gen_names, generate_image_name(gen_args[1], gen_args[2]))
    /\ UNCHANGED gen_args
    /\ UNCHANGED crawl_vars
    /\ UNCHANGED dl_vars

InitName ==
    /\ CrawlInit(<< >>)
    /\ robots_txt = [h \in AllHosts |-> {}]
    /\ website_data = << >>
    /\ DlIdle
    /\ gen_args \in NameInputs
    /\ gen_names = << >>

NextName == GenerateImageName

SpecName == InitName /\ [][NextName]_vars

----------------------------------------------------------------------------
(* download_batch_images and its download_single_image tasks,              *)
(* src/src/image_downloader.py.  The loop that creates the tasks, lines    *)
(* 54-90, has no suspension point: it is one step.                         *)

DOWNLOAD_DIR == "data/downloaded_images"

\* os.path.join(DOWNLOAD_DIR, manufacturer)
SavePath(m) == <<DOWNLOAD_DIR, m>>

\* the limit test, off by one
ReachedMaximum_OffByOne(c) == c > Sections * PerSection + 1

\* line 67: the manufacturer has reached its maximum of images
ReachedMaximum(c) == c > Sections * PerSection

\* the counter left as it is
CounterAfterJob_NoIncrement(counter, m) == counter

\* line 90
CounterAfterJob(counter, m) == [counter EXCEPT ![m] = @ + 1]

\* lines 70-78
ImgData(site_data, img) ==
    [url |-> img.url, manufacturer |-> site_data.manufacturer,
     manufacturer_index |-> site_data.manufacturer_index,
     alt_text |-> img.alt_text, source |-> img.source,
     source_page |-> img.source_page, page_context |-> img.page_context]

\* lines 80-88: the arguments the download_single_image task is created with
DownloadTask(site_data, img, counter) ==
    [image_data |-> ImgData(site_data, img),
     save_path |-> SavePath(site_data.manufacturer),
     image_counter |-> counter[site_data.manufacturer]]

\* the counter of the manufacturer set to 1 at every site of the list
SiteEnter_CounterReset(st, site_data) ==
    [st EXCEPT !.counter = (site_data.manufacturer :> 1) @@ @]

\* lines 61-63, on st = [counter, tasks]
SiteEnter(st, site_data) ==
    IF site_data.manufacturer \in DOMAIN st.counter
    THEN st
    ELSE [st EXCEPT !.counter = (site_data.manufacturer :> 1) @@ @]

\* one pass of the body of the loop of line 65, for the k-th image of the site
ImageStep(st, site_data, k) ==
    IF ReachedMaximum(st.counter[site_data.manufacturer])
    THEN st
    ELSE [counter |-> CounterAfterJob(st.counter, site_data.manufacturer),
          tasks |-> Append(st.tasks,
                           DownloadTask(site_data, site_data.images[k], st.counter))]

\* the loop of line 65 over the images lo..hi of the site, in order: the first
\* half, then the second on what the first left (first is bound to a value, so
\* the evaluation nests no deeper than the halving does)
RECURSIVE ImageLoop(_, _, _, _)
ImageLoop(st, site_data, lo, hi) ==
    IF lo > hi THEN st
    ELSE IF lo = hi THEN ImageStep(st, site_data, lo)
    ELSE LET mid == (lo + hi) \div 2 IN
         CHOOSE last \in {ImageLoop(first, site_data, mid + 1, hi) :
                             first \in {ImageLoop(st, site_data, lo, mid)}} : TRUE

\* the loop of line 57 from the i-th site on
RECURSIVE SiteLoop(_, _)
SiteLoop(st, i) ==
    IF i > Len(website_data) THEN st
    ELSE LET site_data == website_data[i]
             entered == SiteEnter(st, site_data)
         IN SiteLoop(ImageLoop(entered, site_data, 1, Len(site_data.images)), i + 1)

\* an entry of website_data that is an exception object, not a dict
IsException(r) == "exception" \in DOMAIN r

\* download_batch_images up to the awaited gather, lines 53-92; on an entry
\* that is an exception object site_data['manufacturer'], line 58, raises
\* TypeError and the call ends with it
DownloadBatchImages ==
    /\ dl_pc = "idle"
    /\ IF \E i \in 1..Len(website_data) : IsException(website_data[i])
       THEN /\ dl_pc' = "raised"
            /\ UNCHANGED <<tasks, image_counter, task_pc, task_out, task_log>>
       ELSE LET st == SiteLoop([counter |-> << >>, tasks |-> << >>], 1) IN
            /\ tasks' = st.tasks
            /\ image_counter' = st.counter
            /\ task_pc' = [i \in 1..Len(st.tasks) |-> "get"]
            /\ task_out' = [i \in 1..Len(st.tasks) |-> None]
            /\ task_log' = [i \in 1..Len(st.tasks) |-> << >>]
            /\ dl_pc' = "gather"
    /\ UNCHANGED <<website_data, dirs, files, image_data>>
    /\ UNCHANGED crawl_vars
    /\ UNCHANGED name_vars

\* os.path.splitext(url)[1]: from the last dot of the last path segment to the
\* end of the url, the query included
splitext1(url) ==
    IF url[2] = "" THEN << >>
    ELSE IF url[3] = "" THEN <<url[2]>>
    ELSE <<url[2], url[3]>>

\* str.lower() of a piece of a url
LowerPiece(x) ==
    CASE x = ".JPG" -> ".jpg"
      [] x = ".PNG" -> ".png"
      [] OTHER -> x

lower(e) == [i \in 1..Len(e) |-> LowerPiece(e[i])]

\* lines 30-32
FileExtension(url) ==
    LET ext == IF lower(splitext1(url)) = << >> THEN <<".jpg">>
               ELSE lower(splitext1(url))
    IN IF ext \notin {<<".jpg">>, <<".jpeg">>, <<".png">>, <<".gif">>}
       THEN <<".jpg">>
       ELSE ext

\* lines 24-34: os.path.join(save_path, f"{image_name}{ext}")
FilePath(t) ==
    Append(t.save_path,
           generate_image_name(t.image_data.manufacturer_index, t.image_counter)
           \o FileExtension(t.image_data.url))

\* the record with the alt text left out
DownloadedImage_AltDropped(t) ==
    [manufacturer |-> t.image_data.manufacturer,
     image_path |-> FilePath(t),
     alt_text |-> "N/A",
     source_type |-> t.image_data.source,
     page_context |-> t.image_data.page_context]

\* lines 39-45
DownloadedImage(t) ==
    [manufacturer |-> t.image_data.manufacturer,
     image_path |-> FilePath(t),
     alt_text |-> t.image_data.alt_text,
     source_type |-> t.image_data.source,
     page_context |-> t.image_data.page_context]

\* the downloads are followed for batches of at most MaxDownloads tasks
Followed(i) == dl_pc = "gather" /\ i \in 1..Len(tasks) /\ Len(tasks) <= MaxDownloads

\* the task ends with  return None, line 48
ReturnNone(i) ==
    /\ task_pc' = [task_pc EXCEPT ![i] = "done"]
    /\ task_out' = [task_out EXCEPT ![i] = None]

\* session.get answers with status 200: await response.read(), lines 19-21
GetOk(i) ==
    /\ Followed(i)
    /\ task_pc[i] = "get"
    /\ task_pc' = [task_pc EXCEPT ![i] = "read"]
    /\ task_log' = [task_log EXCEPT ![i] = Append(@, "status_200")]
    /\ UNCHANGED <<website_data, dl_pc, image_counter, tasks, task_out, dirs, files,
                   image_data>>
    /\ UNCHANGED crawl_vars
    /\ UNCHANGED name_vars

\* session.get answers with another status: lines 20 and 48
GetNot200(i) ==
    /\ Followed(i)
    /\ task_pc[i] = "get"
    /\ ReturnNone(i)
    /\ task_log' = [task_log EXCEPT ![i] = Append(@, "status_other")]
    /\ UNCHANGED <<website_data, dl_pc, image_counter, tasks, dirs, files, image_data>>
    /\ UNCHANGED crawl_vars
    /\ UNCHANGED name_vars

\* session.get or response.read() raises: lines 46-48
GetRaises(i) ==
    /\ Followed(i)
    /\ task_pc[i] \in {"get", "read"}
    /\ ReturnNone(i)
    /\ task_log' = [task_log EXCEPT ![i] = Append(@, "get_raised")]
    /\ UNCHANGED <<website_data, dl_pc, image_counter, tasks, dirs, files, image_data>>
    /\ UNCHANGED crawl_vars
    /\ UNCHANGED name_vars

\* response.read() returns: lines 23-36, up to the awaited aiofiles.open
ReadDone(i) ==
    /\ Followed(i)
    /\ task_pc[i] = "read"
    /\ dirs' = dirs \cup {tasks[i].save_path}
    /\ task_pc' = [task_pc EXCEPT ![i] = "open"]
    /\ task_log' = [task_log EXCEPT ![i] = Append(@, "read")]
    /\ UNCHANGED <<website_data, dl_pc, image_counter, tasks, task_out, files,
                   image_data>>
    /\ UNCHANGED crawl_vars
    /\ UNCHANGED name_vars

\* aiofiles.open(file_path, mode='wb') returns: the file exists and is empty
OpenDone(i) ==
    /\ Followed(i)
    /\ task_pc[i] = "open"
    /\ files' = (FilePath(tasks[i]) :> "empty") @@ files
    /\ task_pc' = [task_pc EXCEPT ![i] = "write"]
    /\ task_log' = [task_log EXCEPT ![i] = Append(@, "opened")]
    /\ UNCHANGED <<website_data, dl_pc, image_counter, tasks, task_out, dirs,
                   image_data>>
    /\ UNCHANGED crawl_vars
    /\ UNCHANGED name_vars

\* f.write(content) returns and the file is closed: lines 37-45
WriteDone(i) ==
    /\ Followed(i)
    /\ task_pc[i] = "write"
    /\ files' = (FilePath(tasks[i]) :> "written") @@ files
    /\ task_pc' = [task_pc EXCEPT ![i] = "done"]
    /\ task_out' = [task_out EXCEPT ![i] = DownloadedImage(tasks[i])]
    /\ task_log' = [task_log EXCEPT ![i] = Append(@, "written")]
    /\ UNCHANGED <<website_data, dl_pc, image_counter, tasks, dirs, image_data>>
    /\ UNCHANGED crawl_vars
    /\ UNCHANGED name_vars

\* aiofiles.open or f.write raises: lines 46-48
WriteRaises(i) ==
    /\ Followed(i)
    /\ task_pc[i] \in {"open", "write"}
    /\ ReturnNone(i)
    /\ task_log' = [task_log EXCEPT ![i] = Append(@, "write_raised")]
    /\ UNCHANGED <<website_data, dl_pc, image_counter, tasks, dirs, files, image_data>>
    /\ UNCHANGED crawl_vars
    /\ UNCHANGED name_vars

\* the filter that keeps every result
NotNone_KeepAll(r) == TRUE

\* line 93:  r is not None
NotNone(r) == r # None

\* lines 92-93: every task is done; the results that are not None are returned
GatherDownloads ==
    /\ dl_pc = "gather"
    /\ Len(tasks) <= MaxDownloads
    /\ \A i \in 1..Len(tasks) : task_pc[i] = "done"
    /\ image_data' = SelectSeq(task_out, NotNone)
    /\ dl_pc' = "returned"
    /\ UNCHANGED <<website_data, image_counter, tasks, task_pc, task_out, task_log,
                   dirs, files>>
    /\ UNCHANGED crawl_vars
    /\ UNCHANGED name_vars

\* the image urls of the sites of a batch: a path extension in upper case, one
\* followed by a query, none, one alone, and one outside the accepted set
BatchUrl(m, k) ==
    << <<m, k>>,
       IF k > SmallImages THEN ".webp"
       ELSE <<".JPG", ".png", "", ".png">>[((2 * (m - 1) + k - 1) % 4) + 1],
       IF (m + k) % 3 = 0 THEN "?v=1" ELSE "" >>

\* a result record of process_domain with n images
SiteData(m, n) ==
    [manufacturer |-> m, manufacturer_index |-> ManufacturerIndex(m),
     website_url |-> Website(m),
     images |-> [k \in 1..n |->
                    [url |-> BatchUrl(m, k), alt_text |-> "N/A", source |-> "img_tag",
                     source_page |-> Website(m), page_context |-> PageText(Website(m))]],
     page_contexts |-> (Website(m) :> StrippedText(Website(m)))]

\* the inputs: the results of up to MaxSites domain crawls with no image or a
\* few images each, one where a manufacturer comes twice, and those where a
\* site beyond the limit is alone, is followed by a small site or follows one
BatchInputs ==
    UNION {{[i \in 1..n |-> SiteData(i, counts[i])] :
               counts \in [1..n -> {0, SmallImages}]} : n \in 1..MaxSites}
    \cup {<<SiteData(1, SmallImages), SiteData(1, SmallImages)>>,
          <<SiteData(1, BigImages)>>,
          <<SiteData(1, BigImages), SiteData(2, SmallImages)>>,
          <<SiteData(1, SmallImages), SiteData(2, BigImages)>>}

InitBatch ==
    /\ CrawlInit(<< >>)
    /\ robots_txt = [h \in AllHosts |-> {}]
    /\ website_data \in BatchInputs
    /\ DlIdle
    /\ NameIdle

NextBatch ==
    \/ DownloadBatchImages
    \/ \E i \in 1..Len(tasks) : GetOk(i)
    \/ \E i \in 1..Len(tasks) : GetNot200(i)
    \/ \E i \in 1..Len(tasks) : GetRaises(i)
    \/ \E i \in 1..Len(tasks) : ReadDone(i)
    \/ \E i \in 1..Len(tasks) : OpenDone(i)
    \/ \E i \in 1..Len(tasks) : WriteDone(i)
    \/ \E i \in 1..Len(tasks) : WriteRaises(i)
    \/ GatherDownloads

SpecBatch == InitBatch /\ [][NextBatch]_vars

----------------------------------------------------------------------------
(* main, src/main.py lines 23-26: what process_websites returns is handed  *)
(* to download_batch_images.  Nothing else runs between the two calls, so  *)
(* the hand-over and the loop that creates the download tasks are taken    *)
(* one after the other.                                                    *)

\* line 23: website_data is bound to the list process_websites returned
MainHandOver ==
    /\ orch = "returned"
    /\ orch' = "downloading"
    /\ website_data' = results
    /\ UNCHANGED <<manufacturer_data, results, visited_urls, downloaded_images, rp,
                   pc, stack, menu_items, menu_idx, processed_data, task_result, log,
                   robots_txt, robots_status, answered_by>>
    /\ UNCHANGED <<dl_pc, image_counter, tasks, task_pc, task_out, task_log, dirs,
                   files, image_data>>
    /\ UNCHANGED name_vars

\* line 26
MainDownload ==
    /\ orch = "downloading"
    /\ DownloadBatchImages

NextMain ==
    \/ Next
    \/ MainHandOver
    \/ MainDownload
    \/ \E i \in 1..Len(tasks) : GetOk(i)
    \/ \E i \in 1..Len(tasks) : GetNot200(i)
    \/ \E i \in 1..Len(tasks) : GetRaises(i)
    \/ \E i \in 1..Len(tasks) : ReadDone(i)
    \/ \E i \in 1..Len(tasks) : OpenDone(i)
    \/ \E i \in 1..Len(tasks) : WriteDone(i)
    \/ \E i \in 1..Len(tasks) : WriteRaises(i)
    \/ GatherDownloads

\* the pipeline run for the first manufacturer alone
InitMain ==
    /\ CrawlInit(<<1>>)
    /\ WebInit
    /\ website_data = << >>
    /\ DlIdle
    /\ NameIdle

SpecMain == InitMain /\ [][NextMain]_vars

----------------------------------------------------------------------------
(* What the claims speak of *)

\* the task is between its robots.txt request and its end
Crawling(d) == pc[d] \in {"robots_get", "robots_text", "home_fetch", "page_fetch", "sleep"}

\* the page fetches the task has issued, from process_domain and from process_url
PageFetches(d) ==
    {i \in 1..Len(log[d]) : log[d][i].ev \in {"home_fetch", "fetch"}}

\* the urls process_url of the task has marked visited and fetched
VisitedBy(d) ==
    {log[d][i].url : i \in {j \in 1..Len(log[d]) : log[d][j].ev = "fetch"}}

\* the images the task has accumulated
Images(d) == IF processed_data[d] = NoData THEN << >> ELSE processed_data[d].images

ImageUrls(d) == {Images(d)[i].url : i \in 1..Len(Images(d))}

\* the task had its own robots.txt parsed
RobotsParsed(d) == robots_status[d] = "200" /\ log[d] # << >>

IsResultRecord(r) ==
    {"manufacturer", "manufacturer_index", "images", "page_contexts"} \subseteq DOMAIN r

----------------------------------------------------------------------------
(* C1: while a domain crawl runs, the visited-URL set and the image-dedup  *)
(* set it consults hold only what that crawl itself visited and            *)
(* accumulated: no other crawl's URLs or images are in them.               *)
C1_SetsNotShared ==
    \A d \in Tasks :
        Crawling(d) => /\ visited_urls \subseteq VisitedBy(d)
                       /\ downloaded_images \subseteq ImageUrls(d)

(* C2: the number of visited URLs never exceeds max_pages_per_domain. *)
C2_PageCeiling == Cardinality(visited_urls) <= max_pages_per_domain

(* C3: no image URL appears twice in the images list a domain crawl        *)
(* accumulates.                                                            *)
C3_NoDuplicateImage ==
    \A d \in Tasks :
        \A i, j \in 1..Len(Images(d)) :
            Images(d)[i].url = Images(d)[j].url => i = j

\* a crawl has extracted two pages that name the same image, and a page that
\* names one image twice
C3_Witness ==
    /\ processed_data[1] # NoData
    /\ {<<1>>, <<1, 1>>} \subseteq DOMAIN processed_data[1].page_contexts
    /\ {I1, I2} \subseteq ImageUrls(1)

(* C4: process_url fetches no URL twice within a domain crawl: a call for  *)
(* a URL that is already visited returns without a fetch.                  *)
C4_NoRefetch ==
    \A d \in Tasks :
        \A i, j \in 1..Len(log[d]) :
            (/\ log[d][i].ev = "fetch"
             /\ log[d][j].ev = "fetch"
             /\ log[d][i].url = log[d][j].url) => i = j

\* the third menu link of site 1 was reached after the crawl had visited it as
\* a sublink of the home page: the call returned and the menu loop sleeps
C4_Witness ==
    /\ pc[1] = "sleep"
    /\ stack[1] = << >>
    /\ menu_idx[1] = 3
    /\ menu_items[1][3] = <<1, 1>>
    /\ <<1, 1>> \in VisitedBy(1)
    /\ log[1][Len(log[1]) - 1].ev = "sleep"

(* C5: when the robots.txt request of a domain ends with a status other    *)
(* than 200 or with an error, the task issues no page fetch and ends with  *)
(* a null result.                                                          *)
C5_RobotsFailureAborts ==
    \A d \in Tasks :
        robots_status[d] \in {"not200", "error"} =>
            /\ PageFetches(d) = {}
            /\ pc[d] = "done"
            /\ task_result[d] = "None"

(* C6: every element of the list process_websites returns is the result    *)
(* record of a domain crawl that completed; a crawl that returned null or  *)
(* raised contributes nothing.                                             *)
C6_FailuresOmitted ==
    orch = "returned" =>
        /\ \A i \in 1..Len(results) : IsResultRecord(results[i])
        /\ Len(results) = Cardinality({d \in Tasks : task_result[d] = "dict"})

(* C7: every can_fetch check of a domain crawl is answered by a parser     *)
(* that holds exactly that domain's robots.txt, and while the crawl visits *)
(* pages self.rp is that parser.                                           *)
C7_OwnPolicy ==
    \A d \in Tasks :
        /\ \A o \in answered_by[d] : o = [owner |-> d, parsed |-> <<d>>]
        /\ (RobotsParsed(d) /\ Crawling(d)) => rp = [owner |-> d, parsed |-> <<d>>]

(* C8: a domain crawl whose robots.txt was parsed issues no page fetch,    *)
(* from process_domain or from process_url, for a URL that robots.txt      *)
(* disallows.                                                              *)
C8_NoDisallowedFetch ==
    \A d \in Tasks :
        RobotsParsed(d) =>
            \A i \in PageFetches(d) : ~Disallows(robots_txt[d], log[d][i].url)

\* the tasks created for a manufacturer, in creation order
TasksOf(m) == SelectSeq(tasks, LAMBDA t : t.image_data.manufacturer = m)

\* the manufacturers of download_batch_images' input
BatchManufacturers == {website_data[i].manufacturer : i \in 1..Len(website_data)}

Min(a, b) == IF a <= b THEN a ELSE b

\* how many images the sites from the i-th on hold for manufacturer m
RECURSIVE ImagesOf(_, _)
ImagesOf(m, i) ==
    IF i > Len(website_data) THEN 0
    ELSE (IF website_data[i].manufacturer = m THEN Len(website_data[i].images) ELSE 0)
         + ImagesOf(m, i + 1)

(* C9: the sequence numbers of the download tasks of a manufacturer are,   *)
(* in creation order, 1, 2, 3, ...: the k-th task carries k.               *)
C9_GaplessSequence ==
    \A m \in BatchManufacturers :
        LET mine == TasksOf(m) IN
        \A k \in 1..Len(mine) : mine[k].image_counter = k

\* two manufacturers with SmallImages images each have all their tasks, and the
\* first download failed while the second succeeded
C9_Witness ==
    /\ dl_pc = "returned"
    /\ Cardinality(BatchManufacturers) = MaxSites
    /\ Len(tasks) = MaxSites * SmallImages
    /\ task_out[1] = None
    /\ task_out[2] # None

(* C10: no download task carries a sequence number above 26 * 99; when the *)
(* loop has ended every site has a task for each of its first 26 * 99      *)
(* images and none beyond, whatever the other sites hold.                  *)
C10_Ceiling ==
    /\ \A i \in 1..Len(tasks) : tasks[i].image_counter <= Sections * PerSection
    /\ dl_pc # "idle" =>
          \A m \in BatchManufacturers :
              Len(TasksOf(m)) = Min(ImagesOf(m, 1), Sections * PerSection)

\* a site beyond the limit came first, and the site after it has its tasks
C10_Witness ==
    /\ dl_pc = "gather"
    /\ Len(website_data) = 2
    /\ Len(website_data[1].images) > Sections * PerSection
    /\ Len(website_data[2].images) = SmallImages
    /\ Len(TasksOf(website_data[2].manufacturer)) = SmallImages
    /\ Len(TasksOf(website_data[1].manufacturer)) = Sections * PerSection

(* C11: generate_image_name is deterministic and injective: every call with *)
(* the same manufacturer index and count returns the same name, and no     *)
(* smaller count in 1..26*99 gives the name this count gives for the       *)
(* index (so no two counts share a name); the name compared is the one    *)
(* the first call returned, the later calls returning the same.            *)
C11_Injective ==
    /\ \A i, j \in 1..Len(gen_names) : gen_names[i] = gen_names[j]
    /\ Len(gen_names) = 1 =>
          \A c \in CountsFollowed(gen_args[1]) :
              c < gen_args[2] => generate_image_name(gen_args[1], c) # gen_names[1]

\* the last count of the last index was named twice
C11_Witness ==
    /\ Len(gen_names) = MaxCalls
    /\ gen_args = <<MaxOrdinal, Sections * PerSection>>

\* the letters A to Z, numbered from 0
AZ(k) ==
    <<"A", "B", "C", "D", "E", "F", "G", "H", "I", "J", "K", "L", "M", "N", "O", "P",
      "Q", "R", "S", "T", "U", "V", "W", "X", "Y", "Z">>[k + 1]

(* C12: the name is "SDK", the three base-26 letters of the manufacturer   *)
(* index with the most significant first, "0", the letter numbered         *)
(* (count - 1) div 99 and the two digits of (count - 1) mod 99 + 1; the    *)
(* names of (0,1), (0,99), (0,100) and (1,1) are the ones the              *)
(* specification lists.                                                    *)
C12_Format ==
    gen_names # << >> =>
        LET o == gen_args[1]
            c == gen_args[2]
            number == ((c - 1) % 99) + 1
            name == gen_names[1]
        IN /\ name = <<"S", "D", "K", AZ(o \div 676), AZ((o \div 26) % 26), AZ(o % 26),
                       "0", AZ((c - 1) \div 99), DigitChars[(number \div 10) + 1],
                       DigitChars[(number % 10) + 1]>>
           /\ gen_args = <<0, 1>> =>
                 name = <<"S", "D", "K", "A", "A", "A", "0", "A", "0", "1">>
           /\ gen_args = <<0, 99>> =>
                 name = <<"S", "D", "K", "A", "A", "A", "0", "A", "9", "9">>
           /\ gen_args = <<0, 100>> =>
                 name = <<"S", "D", "K", "A", "A", "A", "0", "B", "0", "1">>
           /\ gen_args = <<1, 1>> =>
                 name = <<"S", "D", "K", "A", "A", "B", "0", "A", "0", "1">>

\* the first count of the second section was named for an index of three letters
C12_Witness ==
    /\ gen_names # << >>
    /\ gen_args = <<677, PerSection + 1>>

\* the download task i got status 200 and its write completed
Succeeded(i) == task_log[i] = <<"status_200", "read", "opened", "written">>

\* the download tasks that succeeded, in creation order
SucceededTasks == SelectSeq([i \in 1..Len(tasks) |-> i], Succeeded)

(* C13: a download task leaves a record only if its GET answered 200 and   *)
(* its write completed, a task that ended otherwise leaves None, and the   *)
(* list download_batch_images returns holds exactly the records of the     *)
(* tasks that succeeded, each as its own arguments give it, whatever       *)
(* happened to the other tasks.                                            *)
C13_OnlySuccessesRecorded ==
    /\ \A i \in 1..Len(tasks) :
          /\ task_out[i] # None => Succeeded(i)
          /\ task_pc[i] = "done" /\ ~Succeeded(i) => task_out[i] = None
    /\ dl_pc = "returned" =>
          image_data = [k \in 1..Len(SucceededTasks) |->
                           DownloadedImage(tasks[SucceededTasks[k]])]

\* of four tasks one got another status, one raised in the fetch, one raised in
\* the write and the last one succeeded
C13_Witness ==
    /\ dl_pc = "returned"
    /\ Len(tasks) = MaxDownloads
    /\ task_log[1] = <<"status_other">>
    /\ task_log[2] = <<"status_200", "get_raised">>
    /\ task_log[3] = <<"status_200", "read", "opened", "write_raised">>
    /\ Succeeded(4)
    /\ Len(image_data) = 1

\* the image references of website_data from the i-th site on, in the order
\* download_batch_images goes through them, each with the index of its site
RECURSIVE Refs(_)
Refs(i) ==
    IF i > Len(website_data) THEN << >>
    ELSE [k \in 1..Len(website_data[i].images) |->
             [site |-> i, img |-> website_data[i].images[k]]]
         \o Refs(i + 1)

(* C14: in a pipeline run every record a download returned carries the     *)
(* manufacturer of the domain result its image reference was harvested     *)
(* into, and the alt text, source and page context of that reference as    *)
(* the crawl recorded them.                                                *)
C14_RoundTrip ==
    dl_pc \in {"gather", "returned"} =>
        /\ Len(tasks) = Len(Refs(1))
        /\ \A k \in 1..Len(tasks) :
              task_out[k] # None =>
                  LET ref == Refs(1)[k]
                      site == website_data[ref.site]
                  IN /\ site = processed_data[site.manufacturer]
                     /\ ref.img \in Range(processed_data[site.manufacturer].images)
                     /\ task_out[k].manufacturer = site.manufacturer
                     /\ task_out[k].alt_text = ref.img.alt_text
                     /\ task_out[k].source_type = ref.img.source
                     /\ task_out[k].page_context = ref.img.page_context
                     /\ task_out[k] \in Range(image_data) \/ dl_pc = "gather"

\* the crawl of the first site harvested the logo of its home page from an
\* <img> tag and a background from a style block, and both were downloaded
C14_Witness ==
    /\ orch = "downloading"
    /\ dl_pc = "returned"
    /\ \E k \in 1..Len(image_data) :
          image_data[k].alt_text = "logo" /\ image_data[k].source_type = "img_tag"
    /\ \E k \in 1..Len(image_data) :
          image_data[k].source_type = "style_tag"
          /\ image_data[k].page_context = PageText(<<1>>)

(* C15: no image a domain crawl has accumulated has a data: URI as its     *)
(* url, whichever of the three passes of extract_images found it.          *)
C15_NoDataURI ==
    \A d \in Tasks :
        \A i \in 1..Len(Images(d)) : Images(d)[i].url \notin DataURIs

\* the urls a task has asked a server for or marked visited
Touched(d) == {log[d][i].url : i \in PageFetches(d)}

(* C16: every url a domain crawl marks visited or fetches has the seed url *)
(* of its domain as a prefix.                                              *)
C16_SameSite ==
    \A d \in Tasks :
        \A u \in Touched(d) : IsPrefix(Website(d), u)

\* the urls whose fetch by process_url of the task failed
FailedFetches(d) ==
    {log[d][i].url : i \in {j \in 1..Len(log[d]) : log[d][j].ev = "fetch_failed"}}

(* C17: a page other than the seed whose fetch failed leaves no page       *)
(* context and no image in the task's data, and the crawl goes on: the     *)
(* task ends with its accumulated result, every menu link having been      *)
(* visited unless robots.txt refused it.                                   *)
C17_FailedPageSkipped ==
    \A d \in Tasks :
        \A u \in FailedFetches(d) \ {Website(d)} :
            /\ u \notin DOMAIN processed_data[d].page_contexts
            /\ \A k \in 1..Len(Images(d)) : Images(d)[k].source_page # u
            /\ pc[d] = "done" =>
                  /\ task_result[d] = "dict"
                  /\ \A m \in Range(menu_items[d]) :
                        \/ m \in visited_urls
                        \/ \E o \in answered_by[d] : ~can_fetch(o, m)

(* C18: between any two page fetches a domain crawl issues there is a      *)
(* sleep of the politeness delay.                                          *)
C18_DelayBetweenFetches ==
    \A d \in Tasks :
        \A i, j \in PageFetches(d) :
            i < j => \E k \in (i + 1)..(j - 1) : log[d][k].ev = "sleep"

(* C19: the number of domain crawls that are active at the same time      *)
(* never exceeds a fixed ceiling, CONCURRENT_DOWNLOADS, however many       *)
(* manufacturers process_websites is given.                                *)
C19_ConcurrencyCeiling ==
    Cardinality({d \in Tasks : Crawling(d)}) <= CONCURRENT_DOWNLOADS

\* the positions in the task's log of the fetches process_url issued
Visits(d) == {i \in 1..Len(log[d]) : log[d][i].ev = "fetch"}

(* C20: the visits of a domain crawl come in this order: first the seed    *)
(* and, depth first, the pages reached from it, then the menu links in the *)
(* order of the menu, each with the pages reached from it before the next  *)
(* menu link.  A top-level visit is the seed or the menu link whose turn   *)
(* it is; a deeper visit is a sublink of the latest visit one level up,    *)
(* with only visits at its own level or deeper in between.                 *)
C20_DepthFirstThenMenu ==
    \A d \in Tasks :
        \A j \in Visits(d) :
            LET e == log[d][j] IN
            /\ \A i \in Visits(d) : i < j => log[d][i].mi <= e.mi
            /\ e.depth = 1 =>
                  e.url = IF e.mi = 0 THEN Website(d) ELSE menu_items[d][e.mi]
            /\ e.depth > 1 =>
                  \E i \in Visits(d) :
                      /\ i < j
                      /\ log[d][i].depth = e.depth - 1
                      /\ log[d][i].mi = e.mi
                      /\ e.url \in get_sublinks(log[d][i].url)
                      /\ \A k \in Visits(d) :
                            (i < k /\ k < j) => log[d][k].depth >= e.depth

\* the crawl of site 1 went from the seed down to <<1, 1, 1>>, then visited its
\* second menu link, and returned its result
C20_Witness ==
    /\ task_result[1] = "dict"
    /\ \E i, j \in Visits(1) :
          /\ i < j
          /\ log[1][i].url = <<1, 1, 1>>
          /\ log[1][i].mi = 0
          /\ log[1][i].depth = 3
          /\ log[1][j].mi = 2
          /\ log[1][j].depth = 1

\* no link with the seed as a prefix that a fetched page of the task holds is
\* allowed by the site's robots.txt and unvisited
Exhausted(d) ==
    \A u \in DOMAIN processed_data[d].page_contexts :
        \A l \in Anchors(u) :
            (IsPrefix(Website(d), l) /\ ~Disallows(robots_txt[d], l))
                => l \in visited_urls

\* every domain crawl that was started ends
C21_Terminates ==
    \A d \in AllHosts : (pc[d] = "created") ~> (pc[d] = "done")

(* C21: every domain crawl ends, and when process_domain has returned its  *)
(* result no same-site link found on a page it fetched is both allowed by  *)
(* robots.txt and unvisited.                                               *)
C21_TerminatesExhausted ==
    /\ \A d \in AllHosts : (pc[d] = "created") ~> (pc[d] = "done")
    /\ [](\A d \in AllHosts : task_result[d] = "dict" => Exhausted(d))

\* the log entries of a page request sent and of a page request answered
IsIssue(e) == e.ev \in {"home_fetch", "fetch"}
IsReturn(e) == e.ev \in {"fetched", "fetch_failed"}

\* the page requests of a crawl not answered yet after the first n log entries
InFlight(l, n) ==
    Cardinality({i \in 1..n : IsIssue(l[i])})
        - Cardinality({i \in 1..n : IsReturn(l[i])})

\* the positions of the process_url visits in a log
VisitAt(l) == {i \in 1..Len(l) : l[i].ev = "fetch"}

\* the visit from whose sublink loop the visit at p was called
ParentAt(l, p) ==
    LET above == {q \in VisitAt(l) : q < p /\ l[q].depth = l[p].depth - 1}
    IN CHOOSE q \in above : \A r \in above : r <= q

(* C22: in every crawl at most one page request is unanswered at any time,  *)
(* each answer is to the request sent last, and a visit below the top level *)
(* is a sublink of the latest visit one level up, started when the visit    *)
(* before it was at that level or deeper: a sibling starts only after the   *)
(* whole recursive visit of the sibling before it has returned.             *)
C22_Serialized ==
    \A d \in AllHosts :
        LET l == log[d]
        IN /\ \A n \in 0..Len(l) : InFlight(l, n) \in {0, 1}
           /\ \A i \in 1..Len(l) :
                IsReturn(l[i]) =>
                    i > 1 /\ IsIssue(l[i - 1]) /\ l[i - 1].url = l[i].url
           /\ \A p \in VisitAt(l) :
                l[p].depth > 1 =>
                    /\ \E q \in VisitAt(l) : q < p /\ l[q].depth = l[p].depth - 1
                    /\ l[p].url \in get_sublinks(l[ParentAt(l, p)].url)
                    /\ l[p].mi = l[ParentAt(l, p)].mi
                    /\ \A q \in VisitAt(l) :
                          (ParentAt(l, p) < q /\ q < p) =>
                              /\ l[q].depth >= l[p].depth
                              /\ \E r \in (q + 1)..(p - 1) : IsReturn(l[r]) /\ l[r].url = l[q].url

\* a crawl visited a sublink, a page below it, and then a sibling of the
\* sublink, and the sibling's request is unanswered
C22_Witness ==
    \E d \in AllHosts :
        /\ pc[d] = "page_fetch"
        /\ \E i, j, k \in VisitAt(log[d]) :
              /\ i < j /\ j < k /\ k = Len(log[d])
              /\ log[d][i].depth = 2 /\ log[d][j].depth = 3 /\ log[d][k].depth = 2
              /\ ParentAt(log[d], i) = ParentAt(log[d], k)

\* the pages the crawl d has fetched and kept the text of
Contexts(d) ==
    IF processed_data[d] = NoData THEN {}
    ELSE DOMAIN processed_data[d].page_contexts

\* the links of the page u that have the seed URL of the crawl d as a prefix
SeedPrefixed(d, u) == {l \in Anchors(u) : IsPrefix(Website(d), l)}

(* C23: on every page a crawl has fetched, the links the sublink loop takes *)
(* as same-site links are exactly the links of the page whose absolute URL  *)
(* has the seed URL of the crawl as a prefix.                               *)
C23_SeedPrefix ==
    \A d \in AllHosts :
        \A u \in Contexts(d) : get_sublinks(u) = SeedPrefixed(d, u)

\* the extensions download_single_image accepts
StoredExtensions == {".jpg", ".jpeg", ".png", ".gif"}

\* the extension of the file a path names
ExtensionOf(path) == path[Len(path)][Len(path[Len(path)])]

\* the extension the path of an image url asks for, the query left aside
PathExtension(url) ==
    IF LowerPiece(url[2]) \in StoredExtensions THEN LowerPiece(url[2]) ELSE ".jpg"

(* C24: every file a download task has written has one of the extensions   *)
(* .jpg, .jpeg, .png, .gif: the extension of the path of the image url if   *)
(* that is one of them, and .jpg otherwise.                                 *)
C24_StoredExtension ==
    \A i \in 1..Len(tasks) :
        Succeeded(i) =>
            /\ ExtensionOf(task_out[i].image_path) \in StoredExtensions
            /\ ExtensionOf(task_out[i].image_path) = PathExtension(tasks[i].image_data.url)

\* the positions in the log of the crawl d where a fetch of process_url ended
\* with the given kind of answer
AnswersAt(d, kind) ==
    {i \in 2..Len(log[d]) :
        /\ log[d][i].ev = kind
        /\ log[d][i - 1].ev = "fetch"
        /\ log[d][i - 1].url = log[d][i].url}

(* C25: in every state, every key of a crawl's page_contexts is in          *)
(* visited_urls and was fetched by process_url with success, every image    *)
(* the crawl has accumulated has a key of page_contexts as its source_page, *)
(* and a url whose fetch by process_url failed is in visited_urls and is a  *)
(* key of no page_contexts.                                                 *)
C25_ContextsOfVisitedPages ==
    \A d \in AllHosts :
        /\ Contexts(d) \subseteq visited_urls
        /\ \A u \in Contexts(d) : \E i \in AnswersAt(d, "fetched") : log[d][i].url = u
        /\ \A k \in 1..Len(Images(d)) : Images(d)[k].source_page \in Contexts(d)
        /\ \A i \in AnswersAt(d, "fetch_failed") :
              /\ log[d][i].url \in visited_urls
              /\ \A e \in AllHosts : log[d][i].url \notin Contexts(e)

\* a crawl has kept the context and an image of a page it fetched, and the
\* fetch of another page, not its seed, has failed
C25_Witness ==
    \E d \in AllHosts :
        /\ \E k \in 1..Len(Images(d)) : Images(d)[k].source_page \in Contexts(d)
        /\ \E i \in AnswersAt(d, "fetch_failed") :
              /\ log[d][i].url # Website(d)
              /\ log[d][i].url \in visited_urls
              /\ log[d][i].url \notin Contexts(d)

\* where a download task is told to store its image: the directory and the
\* name generated from its manufacturer index and sequence number
StorageTarget(t) ==
    <<t.save_path, generate_image_name(t.image_data.manufacturer_index, t.image_counter)>>

\* the download tasks that have opened their file
Opened(i) == Len(task_log[i]) >= 3 /\ task_log[i][3] = "opened"

(* C26: the download tasks of one download_batch_images run have pairwise   *)
(* different storage targets (directory and generated name), so they have   *)
(* pairwise different file paths and every task that has opened a file has  *)
(* opened a file of its own.                                                *)
C26_DistinctTargets ==
    /\ Cardinality({StorageTarget(tasks[i]) : i \in 1..Len(tasks)}) = Len(tasks)
    /\ Len(tasks) <= MaxDownloads =>
          /\ \A i, j \in 1..Len(tasks) :
                i # j => FilePath(tasks[i]) # FilePath(tasks[j])
          /\ Cardinality(DOMAIN files)
                = Cardinality({i \in 1..Len(tasks) : Opened(i)})

\* a manufacturer comes twice in the list, and the last task for its first
\* entry and the first task for its second entry have both opened their
\* files and not yet written them
C26_Witness ==
    /\ dl_pc = "gather"
    /\ Len(website_data) = 2
    /\ website_data[1].manufacturer = website_data[2].manufacturer
    /\ Len(tasks) = 2 * SmallImages
    /\ task_pc[SmallImages] = "write"
    /\ task_pc[SmallImages + 1] = "write"
    /\ tasks[SmallImages].save_path = tasks[SmallImages + 1].save_path

====
